---------------------------- MODULE Spec2Model ----------------------------
(***************************************************************************)
(* A model of improve-ai/gym:                                              *)
(*   - src/assign_rewards/join_rewards.py: the shard assigner               *)
(*     (identify_files_to_process), the window-update procedure             *)
(*     (update_listeners) and the attributor (assign_rewards_to_decisions); *)
(*   - src/ingest_firehose/worker.py: the thread-pool orchestrator with     *)
(*     its cancellation flag.                                               *)
(*                                                                         *)
(* Python values are modelled as follows.  A dict is a record; a key that  *)
(* may be absent is a sequence of length 0 (absent) or 1 (present).  A     *)
(* string that the code parses is a sequence of one-character strings.     *)
(* Decision dicts are shared by reference between decision_records and the *)
(* listener lists: a listener is the index of its dict in decision_records.*)
(***************************************************************************)
EXTENDS Integers, Sequences, FiniteSets, TLC

VARIABLES
    \* ---- shard assigner (join_rewards.py, one process per array node)
    input_dir,          \* the names of the files INCOMING_PATH.glob() yields
    REWARD_ASSIGNMENT_WORKER_COUNT,   \* config: the number of array nodes
    node_result,        \* per node id: what worker() got from identify_files_to_process
    \* ---- attributor and window update (join_rewards.py)
    config,             \* the values imported from config
    decision_records,   \* the decision dicts (mutated in place)
    reward_records,
    event_records,
    records,            \* the combined, sorted stream (references to the dicts)
    pos,                \* how many records of the stream the for loop has consumed
    decision_records_by_reward_key,
    outcome,            \* "idle", "running", "returned" or the exception raised
    runs,               \* how many times assign_rewards_to_decisions was called
    returned,           \* per completed call, the reward of each returned decision
    listeners,          \* the listener list handed to update_listeners directly
    call,               \* the last direct call of update_listeners, with the state it found
    expired,            \* listeners some direct call found out of their window
    \* ---- orchestrator (ingest_firehose/worker.py)
    SIGTERM,            \* the module-level cancellation flag
    THREAD_WORKER_COUNT,\* config: max_workers of the thread pool
    decision_partitions,\* the units, each with its model_name
    queue,              \* the executor's work queue: submitted units not yet taken
    future,             \* per unit, the state of its future
    thread,             \* per pool thread, the unit it runs and where it is in process_decisions
    observed,           \* per unit, what its check of SIGTERM read
    started,            \* the units whose process() was invoked
    main,               \* the main thread inside worker()
    repaired,           \* the calls of repair_overlapping_keys, in order
    exit_status         \* the exit status of the process, once it has exited

vars == << input_dir, REWARD_ASSIGNMENT_WORKER_COUNT, node_result, config, decision_records,
           reward_records, event_records, records, pos,
           decision_records_by_reward_key, outcome, runs, returned,
           listeners, call, expired, SIGTERM, THREAD_WORKER_COUNT,
           decision_partitions, queue, future, thread, observed, started,
           main, repaired, exit_status >>

shardVars == << input_dir, REWARD_ASSIGNMENT_WORKER_COUNT, node_result >>
attrVars  == << config, decision_records, reward_records, event_records, records,
                pos, decision_records_by_reward_key, outcome, runs, returned >>
ulVars    == << listeners, call, expired >>
orchVars  == << SIGTERM, THREAD_WORKER_COUNT, decision_partitions, queue, future,
                thread, observed, started, main, repaired, exit_status >>

(***************************************************************************)
(* Bounds of the model.                                                    *)
(***************************************************************************)
MaxFiles == 3          \* files in the input directory
MaxNodeCount == 3      \* node_count ranges over -MaxNegCount .. MaxNodeCount
MaxNegCount == 2
MaxRecords == 3        \* records in the three input collections together
MaxTime == 2           \* timestamps range over 0 .. MaxTime
MaxRuns == 2           \* calls of assign_rewards_to_decisions on the same input
MaxListeners == 2      \* listeners in a list handed to update_listeners directly
MaxCalls == 2          \* direct calls of update_listeners on one list
MaxUnits == 2          \* decision partitions of one ingest
MaxThreads == 2        \* THREAD_WORKER_COUNT ranges over 1 .. MaxThreads

\* f.name[:16]
PrefixLen == 16

(***************************************************************************)
(* Generic helpers.                                                        *)
(***************************************************************************)
Range(s) == { s[i] : i \in DOMAIN s }

NoDuplicates(s) == \A i, j \in DOMAIN s : i # j => s[i] # s[j]

\* All orderings of a finite set, as sequences.
RECURSIVE Orderings(_)
Orderings(S) ==
    IF S = {} THEN { << >> }
    ELSE UNION { { << x >> \o s : s \in Orderings(S \ {x}) } : x \in S }

\* dict.get(key, default) for a key modelled as a sequence of length 0 or 1
Get(opt, default) == IF opt = << >> THEN default ELSE opt[1]

(***************************************************************************)
(* Shard assigner.                                                         *)
(***************************************************************************)
HexChars == { "0", "1", "2", "3", "4", "5", "6", "7",
              "8", "9", "a", "b", "c", "d", "e", "f" }

IsHexChar(c) == c \in HexChars

HexDigit(c) ==
    CASE c = "0" -> 0  [] c = "1" -> 1  [] c = "2" -> 2  [] c = "3" -> 3
      [] c = "4" -> 4  [] c = "5" -> 5  [] c = "6" -> 6  [] c = "7" -> 7
      [] c = "8" -> 8  [] c = "9" -> 9  [] c = "a" -> 10 [] c = "b" -> 11
      [] c = "c" -> 12 [] c = "d" -> 13 [] c = "e" -> 14 [] c = "f" -> 15

\* The first n characters of s are hex digits.
IsHexPrefix(s, n) == \A i \in 1..n : IsHexChar(s[i])

\* int(s[:n], 16) for a string whose first n characters are hex digits
RECURSIVE IntBase16(_, _)
IntBase16(s, n) ==
    IF n = 0 THEN 0 ELSE 16 * IntBase16(s, n - 1) + HexDigit(s[n])

\* Python's a % n for n # 0: the result has the sign of n
PyMod(a, n) == IF n > 0 THEN a % n ELSE -((-a) % (-n))

\* (int(f.name[:16], 16) % node_count) == node_id, for a name whose prefix is hex
BelongsOneIndexed(name, node_id, node_count) ==
    PyMod(IntBase16(name, PrefixLen), node_count) = node_id + 1

BelongsToNode(name, node_id, node_count) ==
    PyMod(IntBase16(name, PrefixLen), node_count) = node_id

\* The for loop of identify_files_to_process over the files in glob order.
\* int() raises ValueError on a prefix that is not hex; % raises
\* ZeroDivisionError when node_count is 0.
RECURSIVE IdentifyLoop(_, _, _, _)
IdentifyLoop(fs, node_id, node_count, files_to_process) ==
    IF fs = << >> THEN [exc |-> "none", files |-> files_to_process]
    ELSE IF ~IsHexPrefix(Head(fs), PrefixLen)
         THEN [exc |-> "ValueError", files |-> << >>]
    ELSE IF node_count = 0
         THEN [exc |-> "ZeroDivisionError", files |-> << >>]
    ELSE IdentifyLoop(Tail(fs), node_id, node_count,
                      IF BelongsToNode(Head(fs), node_id, node_count)
                      THEN Append(files_to_process, Head(fs))
                      ELSE files_to_process)

identify_files_to_process(globbed, node_id, node_count) ==
    IdentifyLoop(globbed, node_id, node_count, << >>)

\* File names: 14 zeros, two more characters of the 16-character prefix, and
\* one character of the rest of the name.
ZeroPad == << "0", "0", "0", "0", "0", "0", "0", "0", "0", "0", "0", "0", "0", "0" >>

NameTails == { << "0", "0", "x" >>, << "0", "1", "x" >>, << "0", "a", "x" >>,
               << "1", "f", "x" >>, << "1", "f", "y" >>, << "0", "g", "x" >> }

FileNames == { ZeroPad \o t : t \in NameTails }

NodeIds == 0 .. (MaxNodeCount - 1)

NodeCounts == (0 - MaxNegCount) .. MaxNodeCount

Idle == [state |-> "idle", exc |-> "none", files |-> << >>]

\* worker() of join_rewards.py on node n: the files are listed in some order
\* (glob promises none) and identify_files_to_process is applied; an exception
\* ends the process.
Worker(n) ==
    /\ node_result[n].state = "idle"
    /\ \E globbed \in Orderings(input_dir) :
          LET r == identify_files_to_process(globbed, n, REWARD_ASSIGNMENT_WORKER_COUNT)
          IN  node_result' = [node_result EXCEPT ![n] =
                  [state |-> IF r.exc = "none" THEN "finished" ELSE "failed",
                   exc   |-> r.exc,
                   files |-> r.files]]
    /\ UNCHANGED << input_dir, REWARD_ASSIGNMENT_WORKER_COUNT, attrVars, ulVars,
                    orchVars >>

(***************************************************************************)
(* Values, timestamps and the dicts of the three record kinds.             *)
(***************************************************************************)
\* A Python value: an int (or float) with its number, or something else.
Num(n) == [kind |-> "int", val |-> n]
NotANumber == [kind |-> "str", val |-> 0]

\* isinstance(reward, int) or isinstance(reward, float)
IsNumeric(v) == v.kind \in {"int", "float"}

DigitChars == << "0", "1", "2", "3", "4", "5", "6", "7", "8", "9" >>

IsDigitChar(c) == \E i \in DOMAIN DigitChars : DigitChars[i] = c

DigitOf(c) == (CHOOSE i \in DOMAIN DigitChars : DigitChars[i] = c) - 1

RECURSIVE DecimalValue(_)
DecimalValue(s) ==
    IF s = << >> THEN 0
    ELSE 10 * DecimalValue(SubSeq(s, 1, Len(s) - 1)) + DigitOf(s[Len(s)])

\* datetime.strptime(s, DATETIME_FORMAT): the instant, or ValueError when the
\* string does not match the format (here: a non-empty string of digits).
Strptime(s) ==
    IF s # << >> /\ \A i \in DOMAIN s : IsDigitChar(s[i])
    THEN [ok |-> TRUE, instant |-> DecimalValue(s)]
    ELSE [ok |-> FALSE, instant |-> 0]

\* The timestamp string of instant n (n < 10).
TsString(n) == << "0", DigitChars[n + 1] >>

TsStrings == { TsString(n) : n \in 0 .. MaxTime }

BadTsString == << "0", "x" >>

\* A datetime object, and an object that is no datetime.
Datetime(n) == [kind |-> "datetime", instant |-> n]
NotADatetime == [kind |-> "str", instant |-> 0]

\* from config import DEFAULT_REWARD_KEY
DEFAULT_REWARD_KEY == "-"

DecisionDicts ==
    [type : {"decision"}, timestamp : TsStrings,
     reward_key : { << >>, << "a" >> }, reward : { << >> }]

\* The 'rewards' dict of a reward record, as its items in iteration order.
RewardMaps == { << << "a", Num(1) >> >>,
                << << "a", Num(1) >>, << "-", Num(2) >> >> }

RewardDicts == [type : {"rewards"}, timestamp : TsStrings, rewards : RewardMaps]

\* The 'properties' key of an event: absent, or present with a numeric 'value'.
EventProperties == { << >>, << [value |-> << Num(3) >>] >> }

EventDicts ==
    [type : {"event"}, timestamp : TsStrings, properties : EventProperties]
    \cup [type : {"unknown"}, timestamp : TsStrings, properties : { << >> }]

Configs ==
    [REWARD_WINDOW : {1}, DEFAULT_REWARD_VALUE : {1},
     DEFAULT_EVENTS_REWARD_VALUE : {Num(5)}]

DefaultConfig == CHOOSE c \in Configs : c.DEFAULT_REWARD_VALUE = 1

(***************************************************************************)
(* update_listeners                                                        *)
(***************************************************************************)
\* del listeners[i] (line 107)
RemoveAtKeeps(s, i) == s

RemoveAt(s, i) == SubSeq(s, 1, i - 1) \o SubSeq(s, i + 1, Len(s))

\* listener_timestamp + window < record_timestamp (line 105), on instants
IsExpiredInclusive(listener_instant, record_instant) ==
    listener_instant + config.REWARD_WINDOW <= record_instant

IsExpired(listener_instant, record_instant) ==
    listener_instant + config.REWARD_WINDOW < record_instant

\* listener.get('reward', DEFAULT_REWARD_VALUE) + float(reward) (line 110)
AccumulatedDefaultEachTime(listener, reward) ==
    Get(listener.reward, 0) + config.DEFAULT_REWARD_VALUE + reward.val

Accumulated(listener, reward) ==
    Get(listener.reward, config.DEFAULT_REWARD_VALUE) + reward.val

\* The backwards loop of update_listeners from index i down to 1.  decisions
\* is the store of the dicts the listeners refer to.  Any exception inside the
\* try block (here: a listener timestamp strptime rejects) is re-raised as
\* UpdateListenersError; what the loop changed before it stays changed.
RECURSIVE UpdateLoop(_, _, _, _, _)
UpdateLoop(decisions, ls, i, record_timestamp, reward) ==
    IF i = 0 THEN [exc |-> "none", listeners |-> ls, decisions |-> decisions]
    ELSE LET listener == decisions[ls[i]]
             listener_timestamp == Strptime(listener.timestamp)
         IN  IF ~listener_timestamp.ok
             THEN [exc |-> "UpdateListenersError", listeners |-> ls,
                   decisions |-> decisions]
             ELSE IF IsExpired(listener_timestamp.instant, record_timestamp.instant)
             THEN UpdateLoop(decisions, RemoveAt(ls, i), i - 1,
                             record_timestamp, reward)
             ELSE UpdateLoop(
                      [decisions EXCEPT ![ls[i]].reward =
                          << Accumulated(listener, reward) >>],
                      ls, i - 1, record_timestamp, reward)

\* The isinstance checks moved inside the try block.
update_listeners_checks_in_try(decisions, ls, record_timestamp, reward) ==
    IF record_timestamp.kind # "datetime" \/ reward.kind \notin {"int", "float"}
    THEN [exc |-> "UpdateListenersError", listeners |-> ls, decisions |-> decisions]
    ELSE UpdateLoop(decisions, ls, Len(ls), record_timestamp, reward)

\* update_listeners(listeners, record_timestamp, reward); listeners is a list.
\* The isinstance checks come before the try block and raise TypeError.
update_listeners(decisions, ls, record_timestamp, reward) ==
    IF record_timestamp.kind # "datetime"
    THEN [exc |-> "TypeError", listeners |-> ls, decisions |-> decisions]
    ELSE IF ~IsNumeric(reward)
    THEN [exc |-> "TypeError", listeners |-> ls, decisions |-> decisions]
    ELSE UpdateLoop(decisions, ls, Len(ls), record_timestamp, reward)

(***************************************************************************)
(* Orchestrator: worker() and process_decisions of ingest_firehose, on a   *)
(* concurrent.futures.ThreadPoolExecutor.                                  *)
(***************************************************************************)
ModelNames == {"m1", "m2"}

Units == DOMAIN decision_partitions

IdleThread == [unit |-> 0, pc |-> "idle"]

OrchIdle ==
    /\ SIGTERM = FALSE
    /\ THREAD_WORKER_COUNT = 1
    /\ decision_partitions = << >>
    /\ queue = << >>
    /\ future = << >>
    /\ thread = [k \in 1..1 |-> IdleThread]
    /\ observed = << >>
    /\ started = {}
    /\ main = [pc |-> "idle", next |-> 1, exc |-> "none", cancel |-> 0]
    /\ repaired = << >>
    /\ exit_status = << >>

AttrIdle ==
    /\ config = DefaultConfig
    /\ decision_records = << >>
    /\ reward_records = << >>
    /\ event_records = << >>
    /\ records = << >>
    /\ pos = 0
    /\ decision_records_by_reward_key = << >>
    /\ outcome = "idle"
    /\ runs = 0
    /\ returned = << >>

NoCall == [n |-> 0, record_timestamp |-> NotADatetime, reward |-> NotANumber,
           exc |-> "none", listeners |-> << >>, rewards |-> << >>]

UlIdle ==
    /\ listeners = << >>
    /\ call = NoCall
    /\ expired = {}

InitShard ==
    /\ input_dir \in { S \in SUBSET FileNames : Cardinality(S) <= MaxFiles }
    /\ REWARD_ASSIGNMENT_WORKER_COUNT \in NodeCounts
    /\ node_result = [n \in NodeIds |-> Idle]
    /\ AttrIdle
    /\ UlIdle
    /\ OrchIdle

NextShard == \E n \in NodeIds : Worker(n)

SpecShard == InitShard /\ [][NextShard]_vars

(***************************************************************************)
(* assign_rewards_to_decisions                                             *)
(***************************************************************************)
\* A reference to a dict of one of the three input collections.
Ref(coll, i) == [coll |-> coll, idx |-> i]

Deref(ref) ==
    CASE ref.coll = "decision_records" -> decision_records[ref.idx]
      [] ref.coll = "reward_records"   -> reward_records[ref.idx]
      [] ref.coll = "event_records"    -> event_records[ref.idx]

RefsOf(coll, n) == [i \in 1..n |-> Ref(coll, i)]

\* The three collections joined with the events in front.
ConcatenatedEventsFirst ==
    RefsOf("event_records", Len(event_records))
    \o RefsOf("reward_records", Len(reward_records))
    \o RefsOf("decision_records", Len(decision_records))

\* records.extend(decision_records); .extend(reward_records); .extend(event_records)
Concatenated ==
    RefsOf("decision_records", Len(decision_records))
    \o RefsOf("reward_records", Len(reward_records))
    \o RefsOf("event_records", Len(event_records))

SortKey(ref) == Strptime(Deref(ref).timestamp).instant

\* x inserted behind every element whose timestamp is not later than its own
RECURSIVE InsertByTimestamp(_, _)
InsertByTimestamp(sorted, x) ==
    IF sorted = << >> THEN << x >>
    ELSE IF SortKey(sorted[Len(sorted)]) <= SortKey(x) THEN Append(sorted, x)
    ELSE Append(InsertByTimestamp(SubSeq(sorted, 1, Len(sorted) - 1), x),
                sorted[Len(sorted)])

\* utils.sort_records_by_timestamp: ascending by timestamp, stable
RECURSIVE sort_records_by_timestamp(_)
sort_records_by_timestamp(rs) ==
    IF rs = << >> THEN << >>
    ELSE InsertByTimestamp(
             sort_records_by_timestamp(SubSeq(rs, 1, Len(rs) - 1)), rs[Len(rs)])

\* decision_records_by_reward_key is a dict: its items in insertion order.
HasKey(m, k) == \E i \in DOMAIN m : m[i].key = k

KeyIndex(m, k) == CHOOSE i \in DOMAIN m : m[i].key = k

\* m.get(k, [])
ListenersOf(m, k) == IF HasKey(m, k) THEN m[KeyIndex(m, k)].listeners ELSE << >>

\* m[k] = ls
SetListeners(m, k, ls) ==
    IF HasKey(m, k) THEN [m EXCEPT ![KeyIndex(m, k)].listeners = ls]
    ELSE Append(m, [key |-> k, listeners |-> ls])

\* for reward_key, reward in record['rewards'].items(): ... (lines 153-155).
\* A key that is not in the dict gets a fresh empty list that is dropped after
\* the call; a list of the dict is updated in place.
RECURSIVE RewardsLoop(_, _, _, _)
RewardsLoop(items, record_timestamp, decisions, m) ==
    IF items = << >> THEN [exc |-> "none", decisions |-> decisions, map |-> m]
    ELSE LET reward_key == Head(items)[1]
             reward == Head(items)[2]
             r == update_listeners(decisions, ListenersOf(m, reward_key),
                                   record_timestamp, reward)
             m2 == IF HasKey(m, reward_key)
                   THEN SetListeners(m, reward_key, r.listeners) ELSE m
         IN  IF r.exc # "none"
             THEN [exc |-> r.exc, decisions |-> r.decisions, map |-> m2]
             ELSE RewardsLoop(Tail(items), record_timestamp, r.decisions, m2)

\* for reward_key, listeners in decision_records_by_reward_key.items(): ...
\* (lines 162-163), from item i on.
RECURSIVE EventLoop(_, _, _, _, _)
EventLoop(i, record_timestamp, reward, decisions, m) ==
    IF i > Len(m) THEN [exc |-> "none", decisions |-> decisions, map |-> m]
    ELSE LET r == update_listeners(decisions, m[i].listeners, record_timestamp, reward)
             m2 == [m EXCEPT ![i].listeners = r.listeners]
         IN  IF r.exc # "none"
             THEN [exc |-> r.exc, decisions |-> r.decisions, map |-> m2]
             ELSE EventLoop(i + 1, record_timestamp, reward, r.decisions, m2)

\* record.get('properties', { 'properties': {} }).get('value', DEFAULT_EVENTS_REWARD_VALUE):
\* the default dict has no 'value' key either.
EventValueNoDefault(record) ==
    Get(Get(record.properties, [value |-> << >>]).value, Num(0))

EventValue(record) ==
    Get(Get(record.properties, [value |-> << >>]).value,
        config.DEFAULT_EVENTS_REWARD_VALUE)

Current == Deref(records[pos + 1])

InLoop == outcome = "running" /\ pos < Len(records)

\* Lines 136-143: the call builds and sorts the combined stream.
Enter ==
    /\ records' = sort_records_by_timestamp(Concatenated)
    /\ pos' = 0
    /\ decision_records_by_reward_key' = << >>
    /\ outcome' = "running"
    /\ runs' = runs + 1
    /\ UNCHANGED << config, decision_records, reward_records, event_records,
                    returned, shardVars, ulVars, orchVars >>

Call == outcome = "idle" /\ Enter

\* The caller hands the same three collections to a second call.
CallAgain == outcome = "returned" /\ runs < MaxRuns /\ Enter

\* The decision is put at the head of its key's list instead.
ProcessDecisionAtHead ==
    /\ InLoop
    /\ Current.type = "decision"
    /\ LET reward_key == Get(Current.reward_key, DEFAULT_REWARD_KEY)
           ls == ListenersOf(decision_records_by_reward_key, reward_key)
       IN  decision_records_by_reward_key' =
               SetListeners(decision_records_by_reward_key, reward_key,
                            << records[pos + 1].idx >> \o ls)
    /\ pos' = pos + 1
    /\ UNCHANGED << config, decision_records, reward_records, event_records,
                    records, outcome, runs, returned, shardVars, ulVars, orchVars >>

\* Lines 145-149
ProcessDecision ==
    /\ InLoop
    /\ Current.type = "decision"
    /\ LET reward_key == Get(Current.reward_key, DEFAULT_REWARD_KEY)
           ls == ListenersOf(decision_records_by_reward_key, reward_key)
       IN  decision_records_by_reward_key' =
               SetListeners(decision_records_by_reward_key, reward_key,
                            Append(ls, records[pos + 1].idx))
    /\ pos' = pos + 1
    /\ UNCHANGED << config, decision_records, reward_records, event_records,
                    records, outcome, runs, returned, shardVars, ulVars, orchVars >>

\* What a rewards or event record leaves behind: the loop result r, or the
\* ValueError of strptime on the record's own timestamp.
Contribute(ts, r) ==
    /\ outcome' = IF ~ts.ok THEN "ValueError"
                  ELSE IF r.exc = "none" THEN "running" ELSE r.exc
    /\ pos' = IF ts.ok /\ r.exc = "none" THEN pos + 1 ELSE pos
    /\ decision_records' = IF ts.ok THEN r.decisions ELSE decision_records
    /\ decision_records_by_reward_key' =
           IF ts.ok THEN r.map ELSE decision_records_by_reward_key
    /\ UNCHANGED << config, reward_records, event_records, records, runs,
                    returned, shardVars, ulVars, orchVars >>

\* Lines 151-155
ProcessRewards ==
    /\ InLoop
    /\ Current.type = "rewards"
    /\ LET ts == Strptime(Current.timestamp)
       IN  Contribute(ts, RewardsLoop(Current.rewards, Datetime(ts.instant),
                                      decision_records,
                                      decision_records_by_reward_key))

\* Lines 158-163
ProcessEvent ==
    /\ InLoop
    /\ Current.type = "event"
    /\ LET ts == Strptime(Current.timestamp)
       IN  Contribute(ts, EventLoop(1, Datetime(ts.instant), EventValue(Current),
                                    decision_records,
                                    decision_records_by_reward_key))

\* The record is skipped instead.
SkipInvalidType ==
    /\ InLoop
    /\ Current.type \notin {"decision", "rewards", "event"}
    /\ pos' = pos + 1
    /\ UNCHANGED << config, decision_records, reward_records, event_records,
                    records, outcome, decision_records_by_reward_key, runs,
                    returned, shardVars, ulVars, orchVars >>

\* Lines 165-166
RaiseInvalidType ==
    /\ InLoop
    /\ Current.type \notin {"decision", "rewards", "event"}
    /\ outcome' = "InvalidTypeError"
    /\ UNCHANGED << config, decision_records, reward_records, event_records,
                    records, pos, decision_records_by_reward_key, runs,
                    returned, shardVars, ulVars, orchVars >>

\* Line 168: return decision_records
\* The decisions are handed back in the order of the sorted stream instead.
ReturnInStreamOrder ==
    /\ outcome = "running"
    /\ pos = Len(records)
    /\ outcome' = "returned"
    /\ returned' =
          LET ds == SelectSeq(records, LAMBDA ref : ref.coll = "decision_records")
          IN  Append(returned,
                     [n \in DOMAIN ds |-> decision_records[ds[n].idx].reward])
    /\ UNCHANGED << config, decision_records, reward_records, event_records,
                    records, pos, decision_records_by_reward_key, runs,
                    shardVars, ulVars, orchVars >>

Return ==
    /\ outcome = "running"
    /\ pos = Len(records)
    /\ outcome' = "returned"
    /\ returned' = Append(returned,
                          [i \in DOMAIN decision_records |-> decision_records[i].reward])
    /\ UNCHANGED << config, decision_records, reward_records, event_records,
                    records, pos, decision_records_by_reward_key, runs,
                    shardVars, ulVars, orchVars >>

ShardIdle ==
    /\ input_dir = {}
    /\ REWARD_ASSIGNMENT_WORKER_COUNT = 1
    /\ node_result = [n \in NodeIds |-> Idle]

InitAttr ==
    /\ config \in Configs
    /\ \E d \in 0 .. MaxRecords :
         \E r \in 0 .. (MaxRecords - d) :
           \E e \in 0 .. (MaxRecords - d - r) :
              /\ decision_records \in [1..d -> DecisionDicts]
              /\ reward_records \in [1..r -> RewardDicts]
              /\ event_records \in [1..e -> EventDicts]
    /\ records = << >>
    /\ pos = 0
    /\ decision_records_by_reward_key = << >>
    /\ outcome = "idle"
    /\ runs = 0
    /\ returned = << >>
    /\ ShardIdle
    /\ UlIdle
    /\ OrchIdle

Step == ProcessDecision \/ ProcessRewards \/ ProcessEvent \/ RaiseInvalidType \/ Return

NextAttr == Call \/ Step

Spec == InitAttr /\ [][NextAttr]_vars

NextRerun == Call \/ CallAgain \/ Step

SpecRerun == InitAttr /\ [][NextRerun]_vars

(***************************************************************************)
(* update_listeners called directly on one listener list                    *)
(***************************************************************************)
\* Listener dicts: the timestamp may be one strptime rejects.
ListenerDicts ==
    [type : {"decision"}, timestamp : TsStrings \cup {BadTsString},
     reward_key : { << >> }, reward : { << >> }]

\* The arguments a caller may pass.
TimestampArgs ==
    { Datetime(n) : n \in 0 .. (MaxTime + config.REWARD_WINDOW + 1) }
    \cup { NotADatetime }

RewardArgs == { Num(1), NotANumber }

\* The positions of ls the backwards loop reaches: those behind which no
\* listener has a timestamp strptime rejects.
Reached(decisions, ls) ==
    { k \in DOMAIN ls :
        \A j \in k .. Len(ls) : Strptime(decisions[ls[j]].timestamp).ok }

OutOfWindow(dict, record_timestamp) ==
    Strptime(dict.timestamp).instant + config.REWARD_WINDOW < record_timestamp.instant

CallUpdateListeners(record_timestamp, reward) ==
    /\ call.n < MaxCalls
    /\ LET r == update_listeners(decision_records, listeners, record_timestamp, reward)
       IN  /\ listeners' = r.listeners
           /\ decision_records' = r.decisions
           /\ call' = [n |-> call.n + 1,
                       record_timestamp |-> record_timestamp,
                       reward |-> reward,
                       exc |-> r.exc,
                       listeners |-> listeners,
                       rewards |-> [i \in DOMAIN decision_records |->
                                       decision_records[i].reward]]
           /\ expired' =
                 IF r.exc = "TypeError" THEN expired
                 ELSE expired \cup
                      { listeners[k] : k \in
                          { j \in Reached(decision_records, listeners) :
                              OutOfWindow(decision_records[listeners[j]],
                                          record_timestamp) } }
    /\ UNCHANGED << config, reward_records, event_records, records, pos,
                    decision_records_by_reward_key, outcome, runs, returned,
                    shardVars, orchVars >>

InitUL ==
    /\ config \in Configs
    /\ \E n \in 0 .. MaxListeners :
          /\ decision_records \in [1..n -> ListenerDicts]
          /\ listeners = [i \in 1..n |-> i]
    /\ call = NoCall
    /\ expired = {}
    /\ reward_records = << >>
    /\ event_records = << >>
    /\ records = << >>
    /\ pos = 0
    /\ decision_records_by_reward_key = << >>
    /\ outcome = "idle"
    /\ runs = 0
    /\ returned = << >>
    /\ ShardIdle
    /\ OrchIdle

NextUL ==
    \E record_timestamp \in TimestampArgs, reward \in RewardArgs :
        CallUpdateListeners(record_timestamp, reward)

SpecUL == InitUL /\ [][NextUL]_vars

(***************************************************************************)
(* Orchestrator actions.  executor.map submits every unit before the first *)
(* result is awaited, so the run starts with all units queued.  A pool     *)
(* thread runs one work item at a time and stores whatever the call raises *)
(* (SystemExit included) in the item's future.                             *)
(***************************************************************************)
Threads == DOMAIN thread

\* A handler that flips the flag on every delivery.
signal_handler_toggles ==
    /\ main.pc \notin {"idle", "done", "exited"}
    /\ SIGTERM' = ~SIGTERM
    /\ UNCHANGED << THREAD_WORKER_COUNT, decision_partitions, queue, future,
                    thread, observed, started, main, repaired, exit_status,
                    shardVars, attrVars, ulVars >>

\* signal_handler (lines 50-54); signals are delivered while the process lives
signal_handler ==
    /\ main.pc \notin {"idle", "done", "exited"}
    /\ SIGTERM' = TRUE
    /\ UNCHANGED << THREAD_WORKER_COUNT, decision_partitions, queue, future,
                    thread, observed, started, main, repaired, exit_status,
                    shardVars, attrVars, ulVars >>

\* A pool thread takes the next work item; an item whose future was cancelled
\* is dropped, any other starts running process_decisions.
TakeWork(k) ==
    /\ thread[k].pc = "idle"
    /\ queue # << >>
    /\ queue' = Tail(queue)
    /\ LET u == Head(queue)
       IN  IF future[u] = "cancelled"
           THEN UNCHANGED << future, thread >>
           ELSE /\ future' = [future EXCEPT ![u] = "running"]
                /\ thread' = [thread EXCEPT ![k] = [unit |-> u, pc |-> "check"]]
    /\ UNCHANGED << SIGTERM, THREAD_WORKER_COUNT, decision_partitions, observed,
                    started, main, repaired, exit_status,
                    shardVars, attrVars, ulVars >>

\* process_decisions, lines 42-45: with the flag set, sys.exit() raises
\* SystemExit, which ends the work item and lands in its future.
CheckIgnored(k) ==
    /\ thread' = [thread EXCEPT ![k].pc = "call_process"]
    /\ UNCHANGED future

\* The SystemExit ends the work item without landing in its future.
CheckFlagLosesExit(k) ==
    IF SIGTERM
    THEN /\ thread' = [thread EXCEPT ![k] = IdleThread]
         /\ UNCHANGED future
    ELSE /\ thread' = [thread EXCEPT ![k].pc = "call_process"]
         /\ UNCHANGED future

CheckFlag(k) ==
    IF SIGTERM
    THEN /\ future' = [future EXCEPT ![thread[k].unit] = "SystemExit"]
         /\ thread' = [thread EXCEPT ![k] = IdleThread]
    ELSE /\ thread' = [thread EXCEPT ![k].pc = "call_process"]
         /\ UNCHANGED future

Check(k) ==
    /\ thread[k].pc = "check"
    /\ observed' = [observed EXCEPT ![thread[k].unit] =
                        IF SIGTERM THEN "set" ELSE "clear"]
    /\ CheckFlag(k)
    /\ UNCHANGED << SIGTERM, THREAD_WORKER_COUNT, decision_partitions, queue,
                    started, main, repaired, exit_status,
                    shardVars, attrVars, ulVars >>

\* line 47: decision_partition.process() is invoked
StartProcess(k) ==
    /\ thread[k].pc = "call_process"
    /\ thread' = [thread EXCEPT ![k].pc = "processing"]
    /\ started' = started \cup {thread[k].unit}
    /\ UNCHANGED << SIGTERM, THREAD_WORKER_COUNT, decision_partitions, queue,
                    future, observed, main, repaired, exit_status,
                    shardVars, attrVars, ulVars >>

\* process() returns
FinishProcess(k) ==
    /\ thread[k].pc = "processing"
    /\ future' = [future EXCEPT ![thread[k].unit] = "finished"]
    /\ thread' = [thread EXCEPT ![k] = IdleThread]
    /\ UNCHANGED << SIGTERM, THREAD_WORKER_COUNT, decision_partitions, queue,
                    observed, started, main, repaired, exit_status,
                    shardVars, attrVars, ulVars >>

\* process() raises
RaiseInProcess(k) ==
    /\ thread[k].pc = "processing"
    /\ future' = [future EXCEPT ![thread[k].unit] = "Exception"]
    /\ thread' = [thread EXCEPT ![k] = IdleThread]
    /\ UNCHANGED << SIGTERM, THREAD_WORKER_COUNT, decision_partitions, queue,
                    observed, started, main, repaired, exit_status,
                    shardVars, attrVars, ulVars >>

\* line 28, list(executor.map(...)): the results are taken in submission order;
\* a future that holds an exception re-raises it in the main thread.
CollectResult ==
    /\ main.pc = "map"
    /\ main.next <= Len(decision_partitions)
    /\ future[main.next] \in {"finished", "SystemExit", "Exception"}
    /\ main' = IF future[main.next] = "finished"
               THEN [main EXCEPT !.next = main.next + 1]
               ELSE [main EXCEPT !.pc = "cancel", !.exc = future[main.next],
                                 !.cancel = Len(decision_partitions)]
    /\ UNCHANGED << SIGTERM, THREAD_WORKER_COUNT, decision_partitions, queue,
                    future, thread, observed, started, repaired, exit_status,
                    shardVars, attrVars, ulVars >>

\* every result was taken: the with block is left
MapDone ==
    /\ main.pc = "map"
    /\ main.next = Len(decision_partitions) + 1
    /\ main' = [main EXCEPT !.pc = "shutdown"]
    /\ UNCHANGED << SIGTERM, THREAD_WORKER_COUNT, decision_partitions, queue,
                    future, thread, observed, started, repaired, exit_status,
                    shardVars, attrVars, ulVars >>

\* The result iterator's finally clause cancels the futures not yet awaited,
\* last submitted first; only a future that is still pending is cancelled.
CancelFuture ==
    /\ main.pc = "cancel"
    /\ main.cancel > main.next
    /\ future' = [future EXCEPT ![main.cancel] =
                      IF @ = "pending" THEN "cancelled" ELSE @]
    /\ main' = [main EXCEPT !.cancel = main.cancel - 1]
    /\ UNCHANGED << SIGTERM, THREAD_WORKER_COUNT, decision_partitions, queue,
                    thread, observed, started, repaired, exit_status,
                    shardVars, attrVars, ulVars >>

CancelDone ==
    /\ main.pc = "cancel"
    /\ main.cancel <= main.next
    /\ main' = [main EXCEPT !.pc = "shutdown"]
    /\ UNCHANGED << SIGTERM, THREAD_WORKER_COUNT, decision_partitions, queue,
                    future, thread, observed, started, repaired, exit_status,
                    shardVars, attrVars, ulVars >>

\* sys.exit() carries no status: a SystemExit that reaches the top level ends
\* the process with status 0; any other exception ends it with status 1.
ExitStatusOf(exc) == IF exc = "SystemExit" THEN 0 ELSE 1

\* The with block is left without waiting for the pool threads.
ShutdownNoWait ==
    /\ main.pc = "shutdown"
    /\ IF main.exc = "none"
       THEN /\ main' = [main EXCEPT !.pc = "repair"]
            /\ UNCHANGED exit_status
       ELSE /\ main' = [main EXCEPT !.pc = "exited"]
            /\ exit_status' = << ExitStatusOf(main.exc) >>
    /\ UNCHANGED << SIGTERM, THREAD_WORKER_COUNT, decision_partitions, queue,
                    future, thread, observed, started, repaired,
                    shardVars, attrVars, ulVars >>

\* Leaving the with block runs executor.shutdown(wait=True): the pool threads
\* drain the queue and are joined.  Then either the loop of line 34 starts or
\* the exception leaves worker() and ends the process.
Shutdown ==
    /\ main.pc = "shutdown"
    /\ queue = << >>
    /\ \A k \in Threads : thread[k].pc = "idle"
    /\ IF main.exc = "none"
       THEN /\ main' = [main EXCEPT !.pc = "repair"]
            /\ UNCHANGED exit_status
       ELSE /\ main' = [main EXCEPT !.pc = "exited"]
            /\ exit_status' = << ExitStatusOf(main.exc) >>
    /\ UNCHANGED << SIGTERM, THREAD_WORKER_COUNT, decision_partitions, queue,
                    future, thread, observed, started, repaired,
                    shardVars, attrVars, ulVars >>

\* sorted(decision_partitions, key=model_name): the model names in order
ModelNameOrder == << "m1", "m2" >>

RepairedNames == { repaired[i].model_name : i \in DOMAIN repaired }

\* The units in submission order, as list positions.
UnitSeq == [i \in 1 .. Len(decision_partitions) |-> i]

\* line 34, sorted(decision_partitions, key=sort_key): a stable sort, the
\* units of the smaller model_name first, each name's units in list order.
RECURSIVE SortedByName(_)
SortedByName(names) ==
    IF names = << >> THEN << >>
    ELSE SelectSeq(UnitSeq, LAMBDA u : decision_partitions[u] = Head(names))
         \o SortedByName(Tail(names))

\* One group of itertools.groupby: the longest run at the head of seq whose
\* elements have the key of the first.
RECURSIVE RunLength(_)
RunLength(seq) ==
    IF Len(seq) <= 1 THEN Len(seq)
    ELSE IF decision_partitions[seq[2]] = decision_partitions[seq[1]]
         THEN 1 + RunLength(Tail(seq))
         ELSE 1

GroupHeadOnly(seq) == {seq[1]}

GroupMembers(seq) == { seq[i] : i \in 1 .. RunLength(seq) }

\* line 34, itertools.groupby(..., sort_key): a new group starts wherever the
\* key changes.
RECURSIVE GroupBy(_)
GroupBy(seq) ==
    IF seq = << >> THEN << >>
    ELSE << [model_name |-> decision_partitions[seq[1]],
             partitions |-> GroupMembers(seq)] >>
         \o GroupBy(SubSeq(seq, RunLength(seq) + 1, Len(seq)))

\* The groups the loop of line 34 has not handled yet, in order.
GroupsLeft ==
    LET groups == GroupBy(SortedByName(ModelNameOrder))
    IN  SubSeq(groups, Len(repaired) + 1, Len(groups))

\* lines 34-35: repair_overlapping_keys for the next group
Repair ==
    /\ main.pc = "repair"
    /\ GroupsLeft # << >>
    /\ repaired' = Append(repaired, Head(GroupsLeft))
    /\ UNCHANGED << SIGTERM, THREAD_WORKER_COUNT, decision_partitions, queue,
                    future, thread, observed, started, main, exit_status,
                    shardVars, attrVars, ulVars >>

\* lines 37-38: worker() returns and the process ends normally
Finish ==
    /\ main.pc = "repair"
    /\ GroupsLeft = << >>
    /\ main' = [main EXCEPT !.pc = "done"]
    /\ exit_status' = << 0 >>
    /\ UNCHANGED << SIGTERM, THREAD_WORKER_COUNT, decision_partitions, queue,
                    future, thread, observed, started, repaired,
                    shardVars, attrVars, ulVars >>

InitOrch ==
    /\ SIGTERM = FALSE
    /\ THREAD_WORKER_COUNT \in 1 .. MaxThreads
    /\ \E n \in 0 .. MaxUnits : decision_partitions \in [1..n -> ModelNames]
    /\ queue = [i \in DOMAIN decision_partitions |-> i]
    /\ future = [u \in DOMAIN decision_partitions |-> "pending"]
    /\ thread = [k \in 1 .. THREAD_WORKER_COUNT |-> IdleThread]
    /\ observed = [u \in DOMAIN decision_partitions |-> "none"]
    /\ started = {}
    /\ main = [pc |-> "map", next |-> 1, exc |-> "none", cancel |-> 0]
    /\ repaired = << >>
    /\ exit_status = << >>
    /\ ShardIdle
    /\ AttrIdle
    /\ UlIdle

ThreadStep(k) ==
    TakeWork(k) \/ Check(k) \/ StartProcess(k) \/ FinishProcess(k) \/ RaiseInProcess(k)

MainStep ==
    CollectResult \/ MapDone \/ CancelFuture \/ CancelDone \/ Shutdown \/ Repair \/ Finish

NextOrch == signal_handler \/ MainStep \/ \E k \in Threads : ThreadStep(k)

SpecOrch == InitOrch /\ [][NextOrch]_vars

\* Fair scheduling: the main thread and every pool thread keep running, and
\* every process() call comes back (it returns or raises).
SpecOrchFair ==
    /\ SpecOrch
    /\ WF_vars(MainStep)
    /\ \A k \in 1 .. MaxThreads :
          WF_vars(k \in Threads /\ (ThreadStep(k)))

(***************************************************************************)
(* Properties of the shard assigner (checked under SpecShard).             *)
(***************************************************************************)
HasHexPrefix(name) == \A i \in 1..PrefixLen : name[i] \in HexChars

OwnerIds == 0 .. (REWARD_ASSIGNMENT_WORKER_COUNT - 1)

FilesOf(n) == Range(node_result[n].files)

\* C1: for a node count C > 0 and file names that start with 16 hex
\* characters, once every node 0..C-1 has run identify_files_to_process, each
\* call returned, no list holds a file twice, the lists of two different nodes
\* share no file, and together the lists hold exactly the input files.
C1_ShardsPartitionTheInput ==
    ( /\ REWARD_ASSIGNMENT_WORKER_COUNT > 0
      /\ \A f \in input_dir : HasHexPrefix(f)
      /\ \A n \in OwnerIds : node_result[n].state # "idle" )
    => /\ \A n \in OwnerIds :
             /\ node_result[n].state = "finished"
             /\ NoDuplicates(node_result[n].files)
       /\ \A m, n \in OwnerIds : m # n => FilesOf(m) \cap FilesOf(n) = {}
       /\ UNION { FilesOf(n) : n \in OwnerIds } = input_dir

\* Two nodes share three files (two do not divide three), both own some.
C1_Witness ==
    /\ REWARD_ASSIGNMENT_WORKER_COUNT = 2
    /\ Cardinality(input_dir) = 3
    /\ \A f \in input_dir : HasHexPrefix(f)
    /\ \A n \in OwnerIds : node_result[n].state = "finished" /\ FilesOf(n) # {}

\* C9: for every node count <= 0, a node that ran identify_files_to_process
\* failed with an error and was assigned no file.
C9_NonPositiveNodeCountFails ==
    \A n \in NodeIds :
        ( REWARD_ASSIGNMENT_WORKER_COUNT <= 0 /\ node_result[n].state # "idle" )
        => ( node_result[n].state = "failed" /\ node_result[n].files = << >> )

(***************************************************************************)
(* Properties of the attributor (checked under Spec and SpecRerun).        *)
(***************************************************************************)
\* The sum of f[x] over the x in S.
RECURSIVE SumOver(_, _)
SumOver(S, f) ==
    IF S = {} THEN 0
    ELSE LET x == CHOOSE y \in S : TRUE IN f[x] + SumOver(S \ {x}, f)

InstantOf(dict) == Strptime(dict.timestamp).instant

KeyOfDecision(dict) == Get(dict.reward_key, DEFAULT_REWARD_KEY)

\* The place of decision i in the sorted stream.
PlaceOf(i) == CHOOSE j \in DOMAIN records : records[j] = Ref("decision_records", i)

RecordAt(j) == Deref(records[j])

\* The items of a reward record for key k.
ItemsFor(dict, k) == { n \in DOMAIN dict.rewards : dict.rewards[n][1] = k }

\* Record j of the stream carries a contribution aimed at key k: a reward
\* record with an entry for k, or an event.
AimedAt(j, k) ==
    \/ RecordAt(j).type = "rewards" /\ ItemsFor(RecordAt(j), k) # {}
    \/ RecordAt(j).type = "event"

\* The value an event carries: its properties.value, or the default of events.
ValueOfEvent(dict) ==
    IF dict.properties = << >> THEN config.DEFAULT_EVENTS_REWARD_VALUE
    ELSE IF dict.properties[1].value = << >> THEN config.DEFAULT_EVENTS_REWARD_VALUE
    ELSE dict.properties[1].value[1]

AmountFor(j, k) ==
    IF RecordAt(j).type = "rewards"
    THEN LET dict == RecordAt(j)
         IN  SumOver(ItemsFor(dict, k),
                     [n \in DOMAIN dict.rewards |-> dict.rewards[n][2].val])
    ELSE ValueOfEvent(RecordAt(j)).val

\* The contributions that qualify for decision i: aimed at its key, later in
\* the stream, inside its window, with no earlier contribution aimed at its
\* key outside its window.
Qualifying(i) ==
    LET d == decision_records[i]
        k == KeyOfDecision(d)
        limit == InstantOf(d) + config.REWARD_WINDOW
    IN  { j \in (PlaceOf(i) + 1) .. Len(records) :
            /\ AimedAt(j, k)
            /\ InstantOf(RecordAt(j)) <= limit
            /\ \A h \in (PlaceOf(i) + 1) .. (j - 1) :
                   AimedAt(h, k) => InstantOf(RecordAt(h)) <= limit }

ExpectedReward(i) ==
    IF Qualifying(i) = {} THEN << >>
    ELSE << config.DEFAULT_REWARD_VALUE
            + SumOver(Qualifying(i),
                      [j \in Qualifying(i) |->
                          AmountFor(j, KeyOfDecision(decision_records[i]))]) >>

\* C2: when the first call of assign_rewards_to_decisions has returned, each
\* decision's reward is the default reward value plus the sum of its
\* qualifying contributions, and is unset when it has none.
C2_RewardIsDefaultPlusQualifying ==
    ( outcome = "returned" /\ runs = 1 )
    => \A i \in DOMAIN decision_records :
           decision_records[i].reward = ExpectedReward(i)

\* A decision with a nonzero default that got a reward entry and an event.
C2_Witness ==
    /\ outcome = "returned"
    /\ runs = 1
    /\ config.DEFAULT_REWARD_VALUE = 1
    /\ \E i \in DOMAIN decision_records :
          /\ \E j \in Qualifying(i) : RecordAt(j).type = "rewards"
          /\ \E j \in Qualifying(i) : RecordAt(j).type = "event"
          /\ decision_records[i].reward = ExpectedReward(i)

\* C5: a second call on the same three collections returns, for every
\* decision, the reward the first call returned.
C5_SecondRunSameRewards ==
    Len(returned) >= 2 => returned[2] = returned[1]

IsValidType(dict) == dict.type \in {"decision", "rewards", "event"}

BadPlaces == { j \in DOMAIN records : ~IsValidType(RecordAt(j)) }

FirstBadPlace == CHOOSE j \in BadPlaces : \A h \in BadPlaces : j <= h

\* C6: when the stream holds a record of another type, the loop never goes
\* past the first such record, the call ends there with InvalidTypeError and
\* with no other outcome, and nothing is returned.
C6_InvalidTypeAbortsTheCall ==
    ( outcome # "idle" /\ BadPlaces # {} )
    => /\ pos < FirstBadPlace
       /\ outcome \in {"running", "InvalidTypeError"}
       /\ outcome = "InvalidTypeError" => pos = FirstBadPlace - 1
       /\ returned = << >>

\* The call failed at the second record, behind a decision and in front of an
\* event inside the decision's window, which was not applied.
C6_Witness ==
    /\ outcome = "InvalidTypeError"
    /\ pos = 1
    /\ Len(records) > pos + 1
    /\ RecordAt(1).type = "decision"
    /\ RecordAt(Len(records)).type = "event"
    /\ ~OutOfWindow(RecordAt(1), Datetime(InstantOf(RecordAt(Len(records)))))
    /\ \A i \in DOMAIN decision_records : decision_records[i].reward = << >>

\* What one event does to listener l of a list, seen over one step.
EventAppliedTo(l, ls2) ==
    IF OutOfWindow(decision_records[l], Datetime(InstantOf(Current)))
    THEN /\ l \notin Range(ls2)
         /\ decision_records'[l].reward = decision_records[l].reward
    ELSE /\ l \in Range(ls2)
         /\ decision_records'[l].reward =
               << Get(decision_records[l].reward, config.DEFAULT_REWARD_VALUE)
                  + ValueOfEvent(Current).val >>

\* C8: an event record, with its value (or, when it carries none, the default
\* of events), is applied under every key of the map: the keys stay, every listener
\* inside its window gets the value, every other listener is removed, a key
\* with an empty list stays empty, and the loop goes on without an error.
C8_EventReachesEveryKey ==
    [][ ( InLoop /\ Current.type = "event" )
        => /\ outcome' = "running"
           /\ pos' = pos + 1
           /\ Len(decision_records_by_reward_key')
                 = Len(decision_records_by_reward_key)
           /\ \A n \in DOMAIN decision_records_by_reward_key :
                 LET before == decision_records_by_reward_key[n]
                     after == decision_records_by_reward_key'[n]
                 IN  /\ after.key = before.key
                     /\ \A l \in Range(before.listeners) :
                            EventAppliedTo(l, after.listeners)
                     /\ Range(after.listeners) \subseteq Range(before.listeners)
      ]_vars

\* An event without a value was just applied to two keys with a listener each.
C8_Witness ==
    /\ outcome = "running"
    /\ pos = 3
    /\ RecordAt(3).type = "event"
    /\ RecordAt(3).properties = << >>
    /\ Len(decision_records_by_reward_key) = 2
    /\ \A n \in DOMAIN decision_records_by_reward_key :
          /\ Len(decision_records_by_reward_key[n].listeners) = 1
          /\ decision_records[decision_records_by_reward_key[n].listeners[1]].reward
                = << config.DEFAULT_REWARD_VALUE
                     + config.DEFAULT_EVENTS_REWARD_VALUE.val >>

(***************************************************************************)
(* Properties of update_listeners (checked under SpecUL).                  *)
(***************************************************************************)
\* The last call passed an argument of a wrong type.
BadArguments ==
    call.record_timestamp.kind # "datetime" \/ ~IsNumeric(call.reward)

\* The listeners the last call found in the list and its loop reached.
ReachedByCall ==
    { call.listeners[k] : k \in Reached(decision_records, call.listeners) }

InsideWindow(l) ==
    call.record_timestamp.instant
        <= InstantOf(decision_records[l]) + config.REWARD_WINDOW

RewardBeforeCall(l) == call.rewards[l]

GotContribution(l) ==
    decision_records[l].reward =
        << Get(RewardBeforeCall(l), config.DEFAULT_REWARD_VALUE) + call.reward.val >>

\* C3: after a call with well-typed arguments, a listener (timestamp t0) the
\* loop reached got the contribution and stayed in the list iff t <= t0 + W,
\* and was removed with its reward untouched iff t > t0 + W.
C3_WindowBoundary ==
    ( call.n > 0 /\ ~BadArguments )
    => \A l \in ReachedByCall :
          /\ InsideWindow(l) <=> ( GotContribution(l) /\ l \in Range(listeners) )
          /\ ~InsideWindow(l) <=>
                ( l \notin Range(listeners)
                  /\ decision_records[l].reward = RewardBeforeCall(l) )

\* One call met a listener exactly at t0 + W and a listener beyond its window.
C3_Witness ==
    /\ call.n > 0
    /\ call.exc = "none"
    /\ \E l \in ReachedByCall :
          /\ call.record_timestamp.instant
                = InstantOf(decision_records[l]) + config.REWARD_WINDOW
          /\ GotContribution(l)
          /\ l \in Range(listeners)
    /\ \E l \in ReachedByCall : ~InsideWindow(l) /\ l \notin Range(listeners)

\* C4: a listener that a call found beyond its window is out of the list for
\* good, and no later call on the list, whatever its timestamp, changes the
\* reward of that decision.
C4_ExpiryIsPermanent ==
    [][ \A l \in expired :
           /\ l \notin Range(listeners')
           /\ decision_records'[l].reward = decision_records[l].reward ]_vars

\* After a listener had expired, a call with a timestamp inside that
\* listener's window went through and rewarded another listener.
C4_Witness ==
    /\ call.n >= 2
    /\ call.exc = "none"
    /\ \E l \in expired :
          /\ l \notin Range(call.listeners)
          /\ InsideWindow(l)
    /\ \E l \in ReachedByCall : GotContribution(l)

\* C7, as claimed: a reward that is no number, or a timestamp that is no
\* datetime, raises UpdateListenersError.
C7_BadArgumentRaisesUpdateListenersError ==
    ( call.n > 0 /\ BadArguments ) => call.exc = "UpdateListenersError"

\* C7, amended: a reward that is no number, or a timestamp that is no
\* datetime, raises TypeError, for every listener list, and the call changes
\* neither the list nor any reward.
C7_BadArgumentRaisesTypeError ==
    ( call.n > 0 /\ BadArguments )
    => /\ call.exc = "TypeError"
       /\ listeners = call.listeners
       /\ \A l \in DOMAIN decision_records :
             decision_records[l].reward = RewardBeforeCall(l)

\* A call with a reward that is no number on a list whose last listener has a
\* timestamp strptime rejects: TypeError, not UpdateListenersError.
C7_Witness ==
    /\ call.n > 0
    /\ ~IsNumeric(call.reward)
    /\ call.record_timestamp.kind = "datetime"
    /\ call.exc = "TypeError"
    /\ call.listeners # << >>
    /\ ~Strptime(decision_records[call.listeners[Len(call.listeners)]].timestamp).ok

(***************************************************************************)
(* Properties of the orchestrator (checked under SpecOrchFair).            *)
(***************************************************************************)
Terminated == main.pc \in {"done", "exited"}

\* C10: a unit whose check read the flag as set never has process() invoked;
\* once the flag is set, a unit that has not made its check yet is never
\* processed; and once the flag is set the job comes to its end.
C10_CancelledUnitsNeverProcessed ==
    /\ [](\A u \in Units : observed[u] = "set" => u \notin started)
    /\ [][ \A u \in Units :
              ( SIGTERM /\ observed[u] = "none" ) => u \notin started' ]_vars
    /\ (SIGTERM ~> Terminated)

\* The job ended after the flag was set: one unit read the flag as set and was
\* not processed, and a unit still waiting in the queue was cancelled.
C10_Witness ==
    /\ SIGTERM
    /\ Terminated
    /\ \E u \in Units :
          observed[u] = "set" /\ future[u] = "SystemExit" /\ u \notin started
    /\ \E u \in Units :
          future[u] = "cancelled" /\ observed[u] = "none" /\ u \notin started

(***************************************************************************)
(* The job's states, read off the main thread's position in worker().      *)
(***************************************************************************)
Running == main.pc \in {"map", "cancel", "shutdown"}

Repairing == main.pc = "repair"

Done == main.pc = "done"

Cancelled == main.pc = "exited" /\ main.exc = "SystemExit"

Failed == main.pc = "exited" /\ main.exc = "Exception"

Completed(u) == future[u] \in {"finished", "SystemExit", "Exception", "cancelled"}

\* The flag is set, the parallel phase is on and some unit has not completed.
FlagSetWhileRunning ==
    SIGTERM /\ Running /\ \E u \in Units : ~Completed(u)

\* C11, as claimed: the job is REPAIRING or DONE only with every unit done,
\* and once the flag is set while the job is RUNNING with a unit not yet
\* completed, the job ends CANCELLED and no group is ever repaired.
C11_SignalWhileRunningCancels ==
    /\ []( (Repairing \/ Done) => \A u \in Units : future[u] = "finished" )
    /\ []( FlagSetWhileRunning => [](repaired = << >> /\ ~Repairing /\ ~Done) )
    /\ ( FlagSetWhileRunning ~> Cancelled )

ModelNamesOfJob == { decision_partitions[u] : u \in Units }

InvocationsFor(m) == { i \in DOMAIN repaired : repaired[i].model_name = m }

\* C12: repair_overlapping_keys is invoked at most once per model_name, each
\* time with every partition of that model_name, never before every unit of
\* the parallel phase has finished and the pool is idle, one invocation per
\* step of the main thread; and in DONE every model_name among the
\* partitions, and no other, has had its invocation.
C12_RepairFanInBarrier ==
    /\ []( /\ \A m \in ModelNames : Cardinality(InvocationsFor(m)) <= 1
           /\ \A i \in DOMAIN repaired :
                 repaired[i].partitions =
                     { u \in Units : decision_partitions[u] = repaired[i].model_name }
           /\ repaired # << >> =>
                 /\ \A u \in Units : future[u] = "finished"
                 /\ \A k \in Threads : thread[k].pc = "idle"
                 /\ Repairing \/ Done
           /\ Done => \A m \in ModelNames :
                        Cardinality(InvocationsFor(m))
                            = IF m \in ModelNamesOfJob THEN 1 ELSE 0 )
    /\ [][ \/ repaired' = repaired
           \/ /\ Len(repaired') = Len(repaired) + 1
              /\ SubSeq(repaired', 1, Len(repaired)) = repaired
              /\ ~Done' ]_vars

\* A run reached DONE after repairing a group of two partitions.
C12_Witness ==
    /\ Done
    /\ exit_status = << 0 >>
    /\ \E i \in DOMAIN repaired : Cardinality(repaired[i].partitions) >= 2

\* C13, as claimed: a run that ends by cancellation or by a unit's error exits
\* with a non-zero status, and status zero is only that of a run that reached
\* DONE after every group was repaired.
C13_NonZeroExitUnlessDone ==
    /\ (Cancelled \/ Failed) => ( exit_status # << >> /\ exit_status[1] # 0 )
    /\ exit_status = << 0 >> => ( Done /\ GroupsLeft = << >> )

\* C14, as claimed: in a run that ended without any signal and in which some
\* unit's process() raised, every unit was started and its process() call
\* came back.
C14_FailureLeavesOtherUnitsAlone ==
    ( Terminated /\ ~SIGTERM /\ \E u \in Units : future[u] = "Exception" )
    => \A u \in Units :
          u \in started /\ future[u] \in {"finished", "Exception"}

(***************************************************************************)
(* Properties of the order of the stream (checked under Spec).             *)
(***************************************************************************)
\* Where a record stands in decisions + rewards + events.
ConcatPlace(ref) ==
    CASE ref.coll = "decision_records" -> ref.idx
      [] ref.coll = "reward_records"   -> Len(decision_records) + ref.idx
      [] ref.coll = "event_records"    ->
             Len(decision_records) + Len(reward_records) + ref.idx

\* Record a of the stream stands rightly in front of record b.
InOrder(a, b) ==
    \/ SortKey(records[a]) < SortKey(records[b])
    \/ /\ SortKey(records[a]) = SortKey(records[b])
       /\ ConcatPlace(records[a]) < ConcatPlace(records[b])

SameInstant(i, j) ==
    InstantOf(decision_records[i]) = InstantOf(RecordAt(j))

\* C15: the stream is in ascending timestamp order, records of one timestamp
\* in the order decisions, reward records, events (each in input order); so
\* when the call has returned, a decision with the timestamp of a reward
\* record that has an entry for its key, or of an event, has received that
\* contribution.
C15_TieBreakAtEqualTimestamps ==
    /\ outcome # "idle" =>
          /\ Len(records) = Len(Concatenated)
          /\ \A a \in 1 .. (Len(records) - 1) : InOrder(a, a + 1)
    /\ ( outcome = "returned" /\ runs = 1 ) =>
          \A i \in DOMAIN decision_records :
             \A j \in DOMAIN records :
                ( AimedAt(j, KeyOfDecision(decision_records[i])) /\ SameInstant(i, j) )
                => /\ j \in Qualifying(i)
                   /\ decision_records[i].reward = ExpectedReward(i)

\* A decision, a reward record with an entry for its key and an event, all of
\* one timestamp: the decision got both contributions.
C15_Witness ==
    /\ outcome = "returned"
    /\ runs = 1
    /\ \E i \in DOMAIN decision_records :
          /\ \E j \in Qualifying(i) :
                RecordAt(j).type = "rewards" /\ SameInstant(i, j)
          /\ \E j \in Qualifying(i) :
                RecordAt(j).type = "event" /\ SameInstant(i, j)
          /\ decision_records[i].reward # << >>

KeysOf(m) == { m[n].key : n \in DOMAIN m }

Ascending(ls) ==
    \A a, b \in DOMAIN ls :
       a < b => InstantOf(decision_records[ls[a]]) <= InstantOf(decision_records[ls[b]])

\* The listener is inside its window at the timestamp of the current record.
Survives(l) ==
    InstantOf(Current) <= InstantOf(decision_records[l]) + config.REWARD_WINDOW

\* C18: at every point of the merge pass every key's listener list is in
\* ascending timestamp order; a step of the pass leaves a list as it is, or
\* appends one decision at its tail, or takes out exactly the listeners that
\* are beyond their window and keeps the others in their order.
C18_ListenersStayAscending ==
    /\ [](\A k \in KeysOf(decision_records_by_reward_key) :
             Ascending(ListenersOf(decision_records_by_reward_key, k)))
    /\ [][ InLoop =>
             \A k \in KeysOf(decision_records_by_reward_key') :
                LET old == ListenersOf(decision_records_by_reward_key, k)
                    new == ListenersOf(decision_records_by_reward_key', k)
                IN  \/ new = old
                    \/ /\ Current.type = "decision"
                       /\ new = Append(old, records[pos + 1].idx)
                    \/ /\ Current.type \in {"rewards", "event"}
                       /\ new = SelectSeq(old, Survives) ]_vars

\* A removal took an earlier decision out of a key's list and kept a later
\* decision of that key in it.
C18_Witness ==
    /\ outcome = "running"
    /\ \E k \in KeysOf(decision_records_by_reward_key) :
          LET ls == ListenersOf(decision_records_by_reward_key, k)
          IN  /\ ls # << >>
              /\ \E i \in DOMAIN decision_records :
                    /\ KeyOfDecision(decision_records[i]) = k
                    /\ PlaceOf(i) <= pos
                    /\ i \notin Range(ls)
                    /\ InstantOf(decision_records[i])
                          < InstantOf(decision_records[ls[1]])

AllListeners(m) ==
    { l \in DOMAIN decision_records : \E n \in DOMAIN m : l \in Range(m[n].listeners) }

WithoutReward(dict) == [dict EXCEPT !.reward = << >>]

InFlight(u) == \E k \in Threads : thread[k].unit = u /\ thread[k].pc = "processing"

\* C16: a unit whose process() call has begun stays in its call, whatever
\* the flag and the other units do, until that call itself comes back; the
\* job is never at its end while a unit is in flight; and every call that has
\* begun comes back.
C16_InFlightUnitsFinish ==
    /\ [][ \A u \in Units :
              InFlight(u) =>
                 \/ InFlight(u)' /\ future'[u] = "running"
                 \/ ~InFlight(u)' /\ future'[u] \in {"finished", "Exception"} ]_vars
    /\ []( Terminated => \A u \in Units : ~InFlight(u) )
    /\ \A u \in 1 .. MaxUnits :
          ( u \in Units /\ InFlight(u) )
             ~> ( u \in Units /\ future[u] \in {"finished", "Exception"} )

\* The job ended by cancellation, and a unit that was in its process() call
\* when another unit read the flag as set has finished.
C16_Witness ==
    /\ Cancelled
    /\ \E u, v \in Units :
          /\ observed[u] = "set"
          /\ observed[v] = "clear"
          /\ u < v
          /\ v \in started
          /\ future[v] = "finished"

\* C17: the flag is false at the start, a step that changes it is a step of
\* the signal handler, and once it is true no step makes it false again.
C17_FlagIsMonotonic ==
    /\ ~SIGTERM
    /\ [][ SIGTERM' # SIGTERM => signal_handler ]_vars
    /\ [][ SIGTERM => SIGTERM' ]_vars

\* The flag was set when every unit was past its check, and it is still set
\* when the run is over.
C17_Witness ==
    /\ SIGTERM
    /\ Done
    /\ Units # {}
    /\ \A u \in Units : observed[u] = "clear"

\* C20: under fair scheduling of the main thread and the pool threads, with
\* every process() call coming back, every run reaches DONE, CANCELLED or
\* failed, and stays there.
C20_JobTerminates ==
    /\ <>(Done \/ Cancelled \/ Failed)
    /\ [][ (Done \/ Cancelled \/ Failed) => UNCHANGED main ]_vars

\* A run that ended as failed although the flag had been set on the way.
C20_Witness ==
    /\ Failed
    /\ SIGTERM
    /\ exit_status = << 1 >>

=============================================================================
